---- MODULE Spec2Model ----
(***************************************************************************)
(* Model of the OpenCart product API client, src/get_product.py (class     *)
(* OpenCartAPI).                                                           *)
(*                                                                         *)
(* Representation.  A Python / JSON value is a record whose field t is the *)
(* type tag ("str", "int", "bool", "float", "none", "list", "dict") and     *)
(* whose payload is in a field named after the type (s, n, b, f, l, d).    *)
(* The text of a str is a sequence of one-character strings, so that       *)
(* strip, the regular expression of _clean_json_response, the JSON decoder *)
(* and html.escape / html.unescape work on characters.  Texts the program  *)
(* only passes along (endpoint names, fixed messages) are single chunks.   *)
(* A dict is a function from keys to values, a list a sequence.            *)
(***************************************************************************)
EXTENDS Integers, Sequences, FiniteSets, TLC

(***************************************************************************)
(* Python values                                                           *)
(***************************************************************************)
PyStr(s) == [t |-> "str", s |-> s]
PyInt(n) == [t |-> "int", n |-> n]
PyBool(b) == [t |-> "bool", b |-> b]
\* the float n + 1/2 (only its type is ever looked at)
PyFloat(n) == [t |-> "float", f |-> n]
PyNone == [t |-> "none"]
PyList(s) == [t |-> "list", l |-> s]
PyDict(f) == [t |-> "dict", d |-> f]

EmptyDict == [k \in {} |-> PyNone]

\* isinstance(x, int): bool is a subclass of int
IsInstanceInt(x) == x.t \in {"int", "bool"}

\* the numeric value of an int (True is 1, False is 0)
IntValue(x) == IF x.t = "bool" THEN (IF x.b THEN 1 ELSE 0) ELSE x.n

\* Python truthiness, bool(x)
Truthy(x) ==
    CASE x.t = "none" -> FALSE
      [] x.t = "bool" -> x.b
      [] x.t = "int" -> x.n # 0
      [] x.t = "float" -> TRUE
      [] x.t = "str" -> Len(x.s) > 0
      [] x.t = "list" -> Len(x.l) > 0
      [] x.t = "dict" -> DOMAIN x.d # {}

(***************************************************************************)
(* Text helpers                                                            *)
(***************************************************************************)
\* the whitespace characters of the texts modelled
Whitespace == {" ", "\t", "\n", "\r"}

RECURSIVE LStripLen(_, _)
\* number of leading characters of s, from position i on, that are in cs
LStripLen(s, cs) ==
    IF s = <<>> \/ Head(s) \notin cs THEN 0 ELSE 1 + LStripLen(Tail(s), cs)

RECURSIVE RStripChars(_, _)
\* str.rstrip(chars)
RStripChars(s, cs) ==
    IF s = <<>> \/ s[Len(s)] \notin cs THEN s
    ELSE RStripChars(SubSeq(s, 1, Len(s) - 1), cs)

\* str.strip()
Strip(s) ==
    LET r == RStripChars(s, Whitespace)
    IN SubSeq(r, LStripLen(r, Whitespace) + 1, Len(r))

\* s[:n]
Prefix(s, n) == SubSeq(s, 1, IF Len(s) < n THEN Len(s) ELSE n)

\* does w occur in s at position i
OccursAt(s, i, w) ==
    /\ i >= 1
    /\ i + Len(w) - 1 <= Len(s)
    /\ \A k \in 1..Len(w) : s[i + k - 1] = w[k]

\* w in s, for two str
Contains(s, w) == \E i \in 1..(Len(s) + 1) : OccursAt(s, i, w)

RECURSIVE Replace(_, _, _)
\* str.replace(c, r) for a one-character c
Replace(s, c, r) ==
    IF s = <<>> THEN <<>>
    ELSE (IF Head(s) = c THEN r ELSE <<Head(s)>>) \o Replace(Tail(s), c, r)

(***************************************************************************)
(* html.escape and html.unescape                                           *)
(*                                                                         *)
(* Domain: texts whose reference names are spelled with the letters        *)
(* a m p l t g q u o x and digits.  Html5 lists every name of              *)
(* html.entities.html5 spelled with those; a character outside ASCII is    *)
(* written as its code point, "U+2248".                                    *)
(***************************************************************************)
Html5 ==
    (<<"a","m","a","l","g",";">> :> <<"U+2A3F">>) @@
    (<<"a","m","p">> :> <<"&">>) @@
    (<<"a","m","p",";">> :> <<"&">>) @@
    (<<"a","p",";">> :> <<"U+2248">>) @@
    (<<"a","u","m","l">> :> <<"U+00E4">>) @@
    (<<"a","u","m","l",";">> :> <<"U+00E4">>) @@
    (<<"g","a","m","m","a",";">> :> <<"U+03B3">>) @@
    (<<"g","a","p",";">> :> <<"U+2A86">>) @@
    (<<"g","g",";">> :> <<"U+226B">>) @@
    (<<"g","g","g",";">> :> <<"U+22D9">>) @@
    (<<"g","l",";">> :> <<"U+2277">>) @@
    (<<"g","l","a",";">> :> <<"U+2AA5">>) @@
    (<<"g","t">> :> <<">">>) @@
    (<<"g","t",";">> :> <<">">>) @@
    (<<"l","a","p",";">> :> <<"U+2A85">>) @@
    (<<"l","a","q","u","o">> :> <<"U+00AB">>) @@
    (<<"l","a","q","u","o",";">> :> <<"U+00AB">>) @@
    (<<"l","a","t",";">> :> <<"U+2AAB">>) @@
    (<<"l","g",";">> :> <<"U+2276">>) @@
    (<<"l","l",";">> :> <<"U+226A">>) @@
    (<<"l","t">> :> <<"<">>) @@
    (<<"l","t",";">> :> <<"<">>) @@
    (<<"m","a","l","t",";">> :> <<"U+2720">>) @@
    (<<"m","a","p",";">> :> <<"U+21A6">>) @@
    (<<"m","p",";">> :> <<"U+2213">>) @@
    (<<"m","u",";">> :> <<"U+03BC">>) @@
    (<<"m","u","m","a","p",";">> :> <<"U+22B8">>) @@
    (<<"o","g","t",";">> :> <<"U+29C1">>) @@
    (<<"o","l","t",";">> :> <<"U+29C0">>) @@
    (<<"o","u","m","l">> :> <<"U+00F6">>) @@
    (<<"o","u","m","l",";">> :> <<"U+00F6">>) @@
    (<<"p","m",";">> :> <<"U+00B1">>) @@
    (<<"q","u","o","t">> :> <<"\"">>) @@
    (<<"q","u","o","t",";">> :> <<"\"">>) @@
    (<<"t","a","u",";">> :> <<"U+03C4">>) @@
    (<<"t","o","p",";">> :> <<"U+22A4">>) @@
    (<<"u","m","l">> :> <<"U+00A8">>) @@
    (<<"u","m","l",";">> :> <<"U+00A8">>) @@
    (<<"u","u","m","l">> :> <<"U+00FC">>) @@
    (<<"u","u","m","l",";">> :> <<"U+00FC">>) @@
    (<<"x","m","a","p",";">> :> <<"U+27FC">>)

\* the characters a named reference cannot contain: [^\t\n\f <&#;]
CharrefStop == {"\t", "\n", "\f", " ", "<", "&", "#", ";"}

RECURSIVE NameRun(_, _, _)
\* length of the run of name characters of s from position i, at most n
\* (the named alternative of html._charref takes {1,32} of them)
NameRun(s, i, n) ==
    IF n = 0 \/ i > Len(s) \/ s[i] \in CharrefStop THEN 0
    ELSE 1 + NameRun(s, i + 1, n - 1)

RECURSIVE LongestName(_, _)
\* html._replace_charref, the loop "for x in range(len(s)-1, 1, -1)"
LongestName(s, x) ==
    IF x <= 1 THEN <<"&">> \o s
    ELSE IF SubSeq(s, 1, x) \in DOMAIN Html5
         THEN Html5[SubSeq(s, 1, x)] \o SubSeq(s, x + 1, Len(s))
         ELSE LongestName(s, x - 1)

\* html._replace_charref for a named reference s (without the '&')
ReplaceCharref(s) ==
    IF s \in DOMAIN Html5 THEN Html5[s] ELSE LongestName(s, Len(s) - 1)

\* html._invalid_charrefs: the replacements of the numeric references HTML 5
\* declares invalid, by code point
InvalidCharrefs ==
    (0 :> <<"U+FFFD">>) @@
    (13 :> <<"\r">>) @@
    (128 :> <<"U+20AC">>) @@
    (129 :> <<"U+0081">>) @@
    (130 :> <<"U+201A">>) @@
    (131 :> <<"U+0192">>) @@
    (132 :> <<"U+201E">>) @@
    (133 :> <<"U+2026">>) @@
    (134 :> <<"U+2020">>) @@
    (135 :> <<"U+2021">>) @@
    (136 :> <<"U+02C6">>) @@
    (137 :> <<"U+2030">>) @@
    (138 :> <<"U+0160">>) @@
    (139 :> <<"U+2039">>) @@
    (140 :> <<"U+0152">>) @@
    (141 :> <<"U+008D">>) @@
    (142 :> <<"U+017D">>) @@
    (143 :> <<"U+008F">>) @@
    (144 :> <<"U+0090">>) @@
    (145 :> <<"U+2018">>) @@
    (146 :> <<"U+2019">>) @@
    (147 :> <<"U+201C">>) @@
    (148 :> <<"U+201D">>) @@
    (149 :> <<"U+2022">>) @@
    (150 :> <<"U+2013">>) @@
    (151 :> <<"U+2014">>) @@
    (152 :> <<"U+02DC">>) @@
    (153 :> <<"U+2122">>) @@
    (154 :> <<"U+0161">>) @@
    (155 :> <<"U+203A">>) @@
    (156 :> <<"U+0153">>) @@
    (157 :> <<"U+009D">>) @@
    (158 :> <<"U+017E">>) @@
    (159 :> <<"U+0178">>)

\* html._invalid_codepoints
InvalidCodepoint(num) ==
    \/ num \in 1..8
    \/ num \in 14..31
    \/ num \in 127..159
    \/ num \in 64976..65007
    \/ num = 11
    \/ (num >= 65534 /\ num <= 1114111 /\ (num % 65536) \in {65534, 65535})

\* the characters chr(32) .. chr(126) (the grave accent by its code point)
Ascii ==
    <<
       " ", "!", "\"", "#", "$", "%", "&", "'", "(", ")", "*", "+", ",", "-", ".", "/",
       "0", "1", "2", "3", "4", "5", "6", "7", "8", "9", ":", ";", "<", "=", ">", "?",
       "@", "A", "B", "C", "D", "E", "F", "G", "H", "I", "J", "K", "L", "M", "N", "O",
       "P", "Q", "R", "S", "T", "U", "V", "W", "X", "Y", "Z", "[", "\\", "]", "^", "_",
       "U+0060", "a", "b", "c", "d", "e", "f", "g", "h", "i", "j", "k", "l", "m", "n", "o",
       "p", "q", "r", "s", "t", "u", "v", "w", "x", "y", "z", "{", "|", "}", "~" >>

HexDigits == <<"0","1","2","3","4","5","6","7","8","9","A","B","C","D","E","F">>

RECURSIVE HexStr(_)
\* n in hexadecimal, as one string
HexStr(n) ==
    IF n < 16 THEN HexDigits[n + 1] ELSE HexStr(n \div 16) \o HexDigits[(n % 16) + 1]

\* chr(num): the character itself when the texts modelled can hold it,
\* the name "U+XXXX" of its code point otherwise
Chr(num) ==
    IF num \in 32..126 THEN Ascii[num - 31]
    ELSE IF num = 9 THEN "\t"
    ELSE IF num = 10 THEN "\n"
    ELSE IF num = 12 THEN "\f"
    ELSE IF num < 4096 THEN "U+" \o (IF num < 16 THEN "000" ELSE IF num < 256 THEN "00" ELSE "0")
                                 \o HexStr(num)
    ELSE "U+" \o HexStr(num)

\* the value of the hexadecimal digit c, or -1
HexValue(c) ==
    IF \E d \in 1..16 : HexDigits[d] = c THEN (CHOOSE d \in 1..16 : HexDigits[d] = c) - 1
    ELSE IF c \in {"a", "b", "c", "d", "e", "f"}
    THEN CASE c = "a" -> 10 [] c = "b" -> 11 [] c = "c" -> 12 [] c = "d" -> 13
           [] c = "e" -> 14 [] c = "f" -> 15
    ELSE 0 - 1

\* the value of the digit c in the given base (10 or 16), or -1
DigitOf(c, base) ==
    IF base = 16 THEN HexValue(c)
    ELSE IF HexValue(c) \in 0..9 /\ c \notin {"a", "b", "c", "d", "e", "f"} THEN HexValue(c)
    ELSE 0 - 1

RECURSIVE NumRun(_, _, _)
\* length of the run of digits of the given base in s from position i
NumRun(s, i, base) ==
    IF i > Len(s) \/ DigitOf(s[i], base) < 0 THEN 0 ELSE 1 + NumRun(s, i + 1, base)

RECURSIVE NumValue(_, _)
\* int(digits, base); every value above 0x10FFFF stands for all of them, which
\* _replace_charref does not tell apart
NumValue(digits, base) ==
    IF digits = <<>> THEN 0
    ELSE LET acc == NumValue(SubSeq(digits, 1, Len(digits) - 1), base)
         IN IF acc > 1114111 THEN acc ELSE acc * base + DigitOf(digits[Len(digits)], base)

\* html._replace_charref for a numeric reference of value num
NumericCharref(num) ==
    IF num \in DOMAIN InvalidCharrefs THEN InvalidCharrefs[num]
    ELSE IF (num >= 55296 /\ num <= 57343) \/ num > 1114111 THEN <<"U+FFFD">>
    ELSE IF InvalidCodepoint(num) THEN <<>>
    ELSE <<Chr(num)>>

RECURSIVE UnescapeFrom(_, _)
\* html._charref.sub(_replace_charref, s), from position i on
UnescapeFrom(s, i) ==
    IF i > Len(s) THEN <<>>
    ELSE IF s[i] # "&" THEN <<s[i]>> \o UnescapeFrom(s, i + 1)
    ELSE IF i + 1 <= Len(s) /\ s[i + 1] = "#"
    THEN LET hex == i + 2 <= Len(s) /\ s[i + 2] \in {"x", "X"}
             base == IF hex THEN 16 ELSE 10
             first == IF hex THEN i + 3 ELSE i + 2
             n == NumRun(s, first, base)
             semi == IF first + n <= Len(s) /\ s[first + n] = ";" THEN 1 ELSE 0
         IN IF n = 0 THEN <<"&">> \o UnescapeFrom(s, i + 1)
            ELSE NumericCharref(NumValue(SubSeq(s, first, first + n - 1), base))
                     \o UnescapeFrom(s, first + n + semi)
    ELSE LET n == NameRun(s, i + 1, 32)
             semi == IF i + n + 1 <= Len(s) /\ s[i + n + 1] = ";" THEN 1 ELSE 0
         IN IF n = 0 THEN <<"&">> \o UnescapeFrom(s, i + 1)
            ELSE ReplaceCharref(SubSeq(s, i + 1, i + n + semi))
                     \o UnescapeFrom(s, i + n + semi + 1)

\* html.unescape(s)
html_unescape(s) == UnescapeFrom(s, 1)

\* html.escape(s, quote)
html_escape(s, quote) ==
    LET a == Replace(s, "&", <<"&","a","m","p",";">>)
        b == Replace(a, "<", <<"&","l","t",";">>)
        c == Replace(b, ">", <<"&","g","t",";">>)
    IN IF quote
       THEN Replace(Replace(c, "\"", <<"&","q","u","o","t",";">>),
                    "'", <<"&","#","x","2","7",";">>)
       ELSE c

(***************************************************************************)
(* json.loads / Response.json                                              *)
(*                                                                         *)
(* Domain: objects, arrays, strings without escapes, true, false, null and *)
(* non-negative integers; the texts modelled hold no '\', '-', '.', "NaN"  *)
(* or "Infinity".                                                          *)
(***************************************************************************)
Digits == <<"0", "1", "2", "3", "4", "5", "6", "7", "8", "9">>

IsDigit(c) == \E d \in 1..10 : Digits[d] = c

DigitValue(c) == (CHOOSE d \in 1..10 : Digits[d] = c) - 1

ParseFail == [ok |-> FALSE, val |-> PyNone, next |-> 0]

ParseOk(val, next) == [ok |-> TRUE, val |-> val, next |-> next]

RECURSIVE SkipWs(_, _)
\* the first position from i on that holds no whitespace
SkipWs(s, i) ==
    IF i <= Len(s) /\ s[i] \in Whitespace THEN SkipWs(s, i + 1) ELSE i

RECURSIVE StringEnd(_, _)
\* the position of the quote closing a string whose text starts at i, or 0
\* (an unterminated string, a control character or an escape)
StringEnd(s, i) ==
    IF i > Len(s) THEN 0
    ELSE IF s[i] = "\"" THEN i
    ELSE IF s[i] \in {"\t", "\n", "\r", "\f", "\\"} THEN 0
    ELSE StringEnd(s, i + 1)

\* a string, s[i] being its opening quote
ParseString(s, i) ==
    LET e == StringEnd(s, i + 1)
    IN IF e = 0 THEN ParseFail
       ELSE ParseOk(PyStr(SubSeq(s, i + 1, e - 1)), e + 1)

RECURSIVE ParseDigits(_, _, _)
\* the digits of a number from position i on, acc the value read so far
ParseDigits(s, i, acc) ==
    IF i <= Len(s) /\ IsDigit(s[i])
    THEN ParseDigits(s, i + 1, 10 * acc + DigitValue(s[i]))
    ELSE ParseOk(PyInt(acc), i)

RECURSIVE ParseValue(_, _)
RECURSIVE ParseMembers(_, _, _)
RECURSIVE ParseElements(_, _, _)

\* json.scanner: one value at position i
ParseValue(s, i) ==
    IF i > Len(s) THEN ParseFail
    ELSE IF s[i] = "\"" THEN ParseString(s, i)
    ELSE IF s[i] = "{" THEN
        LET j == SkipWs(s, i + 1)
        IN IF j <= Len(s) /\ s[j] = "}" THEN ParseOk(PyDict(EmptyDict), j + 1)
           ELSE ParseMembers(s, j, EmptyDict)
    ELSE IF s[i] = "[" THEN
        LET j == SkipWs(s, i + 1)
        IN IF j <= Len(s) /\ s[j] = "]" THEN ParseOk(PyList(<<>>), j + 1)
           ELSE ParseElements(s, j, <<>>)
    ELSE IF OccursAt(s, i, <<"t","r","u","e">>) THEN ParseOk(PyBool(TRUE), i + 4)
    ELSE IF OccursAt(s, i, <<"f","a","l","s","e">>) THEN ParseOk(PyBool(FALSE), i + 5)
    ELSE IF OccursAt(s, i, <<"n","u","l","l">>) THEN ParseOk(PyNone, i + 4)
    ELSE IF s[i] = "0" THEN ParseOk(PyInt(0), i + 1)
    ELSE IF IsDigit(s[i]) THEN ParseDigits(s, i, 0)
    ELSE ParseFail

\* json.decoder.JSONObject: the members from position i on (a key is due)
ParseMembers(s, i, acc) ==
    IF i > Len(s) \/ s[i] # "\"" THEN ParseFail
    ELSE LET k == ParseString(s, i)
             c == SkipWs(s, k.next)
         IN IF ~k.ok \/ c > Len(s) \/ s[c] # ":" THEN ParseFail
            ELSE LET x == ParseValue(s, SkipWs(s, c + 1))
                     e == SkipWs(s, x.next)
                     got == (k.val.s :> x.val) @@ acc
                 IN IF ~x.ok \/ e > Len(s) THEN ParseFail
                    ELSE IF s[e] = "}" THEN ParseOk(PyDict(got), e + 1)
                    ELSE IF s[e] = "," THEN ParseMembers(s, SkipWs(s, e + 1), got)
                    ELSE ParseFail

\* json.decoder.JSONArray: the elements from position i on (a value is due)
ParseElements(s, i, acc) ==
    LET x == ParseValue(s, i)
        e == SkipWs(s, x.next)
    IN IF ~x.ok \/ e > Len(s) THEN ParseFail
       ELSE IF s[e] = "]" THEN ParseOk(PyList(Append(acc, x.val)), e + 1)
       ELSE IF s[e] = "," THEN ParseElements(s, SkipWs(s, e + 1), Append(acc, x.val))
       ELSE ParseFail

\* json.loads(s): [ok, val]; ok is FALSE where json raises JSONDecodeError
json_loads(s) ==
    LET x == ParseValue(s, SkipWs(s, 1))
    IN IF x.ok /\ SkipWs(s, x.next) = Len(s) + 1
       THEN [ok |-> TRUE, val |-> x.val]
       ELSE [ok |-> FALSE, val |-> PyNone]

(***************************************************************************)
(* _clean_json_response: re.search(r'(\{.*\}|\[.*\])\s*$', text, DOTALL)   *)
(***************************************************************************)
\* \s*$ matches from position i on: only whitespace is left
OnlyWsFrom(s, i) == \A k \in i..Len(s) : s[k] \in Whitespace

\* the end of the match of open .* close at position i: the greedy .* takes
\* the last close after which \s*$ still matches; 0 if there is none
GroupEnd(s, i, open, close) ==
    IF s[i] # open THEN 0
    ELSE LET ends == {j \in (i + 1)..Len(s) : s[j] = close /\ OnlyWsFrom(s, j + 1)}
         IN IF ends = {} THEN 0 ELSE CHOOSE j \in ends : \A k \in ends : k <= j

\* the end of the match of the whole pattern at position i (first alternative
\* first), or 0
MatchEnd(s, i) ==
    IF GroupEnd(s, i, "{", "}") # 0 THEN GroupEnd(s, i, "{", "}")
    ELSE GroupEnd(s, i, "[", "]")

\* re.search: the leftmost position at which the pattern matches, or 0
SearchStart(s) ==
    LET starts == {i \in 1..Len(s) : MatchEnd(s, i) # 0}
    IN IF starts = {} THEN 0 ELSE CHOOSE i \in starts : \A k \in starts : i <= k

\* OpenCartAPI._clean_json_response
clean_json_response(text) ==
    LET i == SearchStart(text)
    IN IF i # 0 THEN SubSeq(text, i, MatchEnd(text, i)) ELSE text

(***************************************************************************)
(* _decode_html_in_dict and _encode_html_in_dict                           *)
(***************************************************************************)
RECURSIVE decode_html_in_dict(_)
\* OpenCartAPI._decode_html_in_dict
decode_html_in_dict(data) ==
    IF data.t = "dict"
    THEN PyDict([key \in DOMAIN data.d |-> decode_html_in_dict(data.d[key])])
    ELSE IF data.t = "list"
    THEN PyList([i \in 1..Len(data.l) |-> decode_html_in_dict(data.l[i])])
    ELSE IF data.t = "str" THEN PyStr(html_unescape(data.s))
    ELSE data

RECURSIVE encode_html_in_dict(_)
\* the mutant of encode_html_in_dict that calls html.escape with its default,
\* quote=True
encode_html_in_dict_quoting(data) ==
    IF data.t = "dict"
    THEN PyDict([key \in DOMAIN data.d |-> encode_html_in_dict(data.d[key])])
    ELSE IF data.t = "list"
    THEN PyList([i \in 1..Len(data.l) |-> encode_html_in_dict(data.l[i])])
    ELSE IF data.t = "str" THEN PyStr(html_escape(data.s, TRUE))
    ELSE data

\* OpenCartAPI._encode_html_in_dict
encode_html_in_dict(data) ==
    IF data.t = "dict"
    THEN PyDict([key \in DOMAIN data.d |-> encode_html_in_dict(data.d[key])])
    ELSE IF data.t = "list"
    THEN PyList([i \in 1..Len(data.l) |-> encode_html_in_dict(data.l[i])])
    ELSE IF data.t = "str" THEN PyStr(html_escape(data.s, FALSE))
    ELSE data

\* the mutant of decode_html that decodes what it has decoded once more
decode_html_twice(text) == html_unescape(html_unescape(text))

\* OpenCartAPI.decode_html
decode_html(text) == html_unescape(text)

\* OpenCartAPI.encode_html
encode_html(text, quote) == html_escape(text, quote)

(***************************************************************************)
(* The server's answers (the environment of the client)                    *)
(***************************************************************************)
S_success == <<"s","u","c","c","e","s","s">>
S_data == <<"d","a","t","a">>
S_error == <<"e","r","r","o","r">>
S_message == <<"m","e","s","s","a","g","e">>
S_count == <<"c","o","u","n","t">>
S_name == <<"n","a","m","e">>
S_tags == <<"t","a","g","s">>
S_lt == <<"&","l","t",";">>
S_gt == <<"&","g","t",";">>
S_amp == <<"&","a","m","p",";">>
S_not_found == <<"P","r","o","d","u","c","t"," ","n","o","t"," ","f","o","u","n","d">>
S_not_json == <<"n","o","t"," ","j","s","o","n"," ","a","t"," ","a","l","l">>

RECURSIVE IntToStr(_)
\* str(n) for n >= 0
IntToStr(n) ==
    IF n < 10 THEN <<Digits[n + 1]>> ELSE IntToStr(n \div 10) \o <<Digits[(n % 10) + 1]>>

RECURSIVE Dumps(_)
RECURSIVE DumpsMembers(_, _)
RECURSIVE DumpsElements(_)
\* the server's JSON encoder
Dumps(x) ==
    CASE x.t = "none" -> <<"n","u","l","l">>
      [] x.t = "bool" -> IF x.b THEN <<"t","r","u","e">> ELSE <<"f","a","l","s","e">>
      [] x.t = "int" -> IntToStr(x.n)
      [] x.t = "str" -> <<"\"">> \o x.s \o <<"\"">>
      [] x.t = "list" -> <<"[">> \o DumpsElements(x.l) \o <<"]">>
      [] x.t = "dict" -> <<"{">> \o DumpsMembers(x.d, DOMAIN x.d) \o <<"}">>

DumpsMembers(f, keys) ==
    IF keys = {} THEN <<>>
    ELSE LET k == CHOOSE k \in keys : TRUE
             rest == keys \ {k}
         IN <<"\"">> \o k \o <<"\"", ":">> \o Dumps(f[k])
                \o (IF rest = {} THEN <<>> ELSE <<",">> \o DumpsMembers(f, rest))

DumpsElements(s) ==
    IF s = <<>> THEN <<>>
    ELSE Dumps(Head(s)) \o (IF Len(s) = 1 THEN <<>> ELSE <<",", " ">> \o DumpsElements(Tail(s)))

\* the envelope of the spec's recovery example: {"success": true, "count": 0, "data": []}
EnvEmpty ==
    PyDict((S_success :> PyBool(TRUE)) @@ (S_count :> PyInt(0)) @@ (S_data :> PyList(<<>>)))

\* an envelope whose data nests mappings and sequences, with entity-encoded
\* string leaves, non-string leaves, and an entity-encoded message
EnvNested ==
    PyDict((S_success :> PyBool(TRUE)) @@ (S_message :> PyStr(S_amp)) @@ (S_count :> PyInt(1))
           @@ (S_data :> PyDict((S_name :> PyStr(S_lt \o <<"T">> \o S_gt))
                   @@ (S_tags :> PyList(<<PyStr(S_amp \o <<"l","t",";">>), PyInt(12), PyNone,
                                           PyBool(FALSE),
                                           PyDict(S_lt :> PyStr(<<"a","&","g","t">>))>>)))))

\* a failure envelope that carries data
EnvFailed ==
    PyDict((S_success :> PyBool(FALSE)) @@ (S_error :> PyStr(S_lt)) @@ (S_data :> PyStr(S_gt)))

\* a success envelope without data
EnvNoData == PyDict((S_success :> PyBool(TRUE)) @@ (S_message :> PyStr(S_lt)))

\* an envelope whose success field is a truthy number
EnvTruthy == PyDict((S_success :> PyInt(1)) @@ (S_data :> PyStr(S_gt)))

Envelopes == {EnvEmpty, EnvNested, EnvFailed, EnvNoData, EnvTruthy}

\* JSON values without a 'success' key, and non-mappings that "contain" 'success'
NonEnvelopes ==
    { PyDict(S_data :> PyList(<<>>)), PyList(<<>>), PyList(<<PyStr(S_success)>>),
      PyStr(<<"a">>), PyStr(<<"u","n">> \o S_success), PyInt(0), PyInt(7),
      PyBool(TRUE), PyNone }

\* diagnostic texts the server may emit before the JSON payload
DiagPlain == {<<"N","o","t","i","c","e",":"," ","a","\n">>, <<"[","w","]"," ">>, <<"a","}"," ">>}

DiagWithBrace == {<<"N","o","t","i","c","e"," ","{","x","}"," ">>}

\* the length of the prefix of the raw text an invalid-JSON error carries
DiagPrefixLen == 500

\* a body longer than DiagPrefixLen that is no JSON
LongJunk == [i \in 1..(DiagPrefixLen + 3) |-> IF i % 2 = 0 THEN "x" ELSE "y"]

OkBodies ==
    {Dumps(v) : v \in Envelopes \cup NonEnvelopes}
        \cup {d \o Dumps(EnvEmpty) : d \in DiagPlain \cup DiagWithBrace}
        \cup {Dumps(EnvEmpty) \o <<"\n">>, S_not_json, <<>>, LongJunk}

ErrorBodies ==
    { Dumps(PyDict(S_error :> PyStr(S_not_found))),
      Dumps(PyDict((S_success :> PyBool(FALSE)) @@ (S_error :> PyStr(<<"b","a","d">>)))),
      Dumps(PyDict(S_message :> PyStr(<<"a">>))),
      Dumps(PyDict(S_error :> PyNone)),
      Dumps(PyList(<<PyStr(S_error)>>)),
      <<"N","o","t"," ","F","o","u","n","d">>,
      <<>> }

HttpResponse(status, text) ==
    [kind |-> "http", exc |-> "", status_code |-> status, text |-> text]

TransportFailure(exc) ==
    [kind |-> "transport", exc |-> exc, status_code |-> 0, text |-> <<>>]

NoResponse == [kind |-> "none", exc |-> "", status_code |-> 0, text |-> <<>>]

\* an attribute payload nesting a mapping and a sequence, with markup in its leaves
PayloadNested ==
    PyDict((S_name :> PyStr(<<"<","T",">","&">>))
           @@ (S_tags :> PyList(<<PyStr(S_lt), PyInt(5), PyDict(S_data :> PyStr(<<"a",">">>))>>)))

PayloadPlain == PyDict(S_count :> PyInt(1))

\* the payloads add_attribute accepts
WritablePayloads == {PayloadNested, PayloadPlain}

\* the envelope of a server that returns as data the JSON body it stored
EchoEnvelope(body) == PyDict((S_success :> PyBool(TRUE)) @@ (S_data :> body))

EchoResponse(body) == HttpResponse(200, Dumps(EchoEnvelope(body)))

\* what the server, or the network, does with one request
Responses ==
    {HttpResponse(200, b) : b \in OkBodies}
        \cup {HttpResponse(404, b) : b \in ErrorBodies}
        \cup {HttpResponse(500, Dumps(PyDict(S_error :> PyStr(<<"b","a","d">>)))),
              HttpResponse(500, <<>>), HttpResponse(500, LongJunk)}
        \cup {EchoResponse(p) : p \in WritablePayloads}
        \cup {EchoResponse(encode_html_in_dict(p)) : p \in WritablePayloads}
        \cup {TransportFailure("ConnectionError"), TransportFailure("Timeout")}

(***************************************************************************)
(* The client object                                                       *)
(***************************************************************************)
VARIABLES
    base_url,           \* self.base_url
    api_key,            \* self.api_key
    auto_decode_html,   \* self.auto_decode_html
    timeout,            \* self.timeout
    session_headers,    \* self.session.headers
    sent,               \* number of HTTP requests the session has issued so far
    last                \* the call in hand: operation, arguments, the requests it
                        \* issued, the answer it got and its outcome; Idle between calls

vars == <<base_url, api_key, auto_decode_html, timeout, session_headers, sent, last>>

\* the most requests a session is followed for
MaxSent == 2

\* the longest search term
MaxTermLen == 2

DefaultTimeout == 30

DefaultStart == 0

DefaultLimit == 20

\* the largest page size search_products and get_all_categories accept
MaxLimit == 100

ApiKeys == {"key-1", "key-2"}

BaseUrls == {<<"h">>, <<"h", "/">>, <<"h", "/", "/">>}

Idle == [op |-> "idle"]

\* OpenCartAPI.__init__
Init ==
    /\ base_url \in {RStripChars(u, {"/"}) : u \in BaseUrls}
    /\ api_key \in ApiKeys
    /\ auto_decode_html \in BOOLEAN
    /\ timeout = DefaultTimeout
    /\ session_headers = ("X-API-KEY" :> api_key)
                            @@ ("Content-Type" :> "application/json; charset=utf-8")
                            @@ ("User-Agent" :> "OpenCartAPI-Python-Client/1.0")
    /\ sent = 0
    /\ last = Idle

(***************************************************************************)
(* Outcomes of a call                                                      *)
(***************************************************************************)
Return(value) ==
    [kind |-> "return", value |-> value, exc |-> "", msg |-> "", status_code |-> 0,
     text |-> <<>>]

\* msg is the fixed part of the exception's message, text the part formatted into it
Raise(exc, msg, status_code, text) ==
    [kind |-> "raise", value |-> PyNone, exc |-> exc, msg |-> msg,
     status_code |-> status_code, text |-> text]

\* a call ends with its outcome and the requests it issued
Done(requests, outcome) == [requests |-> requests, outcome |-> outcome]

(***************************************************************************)
(* OpenCartAPI._request                                                    *)
(***************************************************************************)
NoParams == [k \in {} |-> PyNone]

\* f'api/product_api/{endpoint}'
Route(endpoint) == PyStr(<<"api/product_api/", endpoint>>)

\* full_params = {'route': ...}; if params: full_params.update(params)
FullParams(endpoint, params) ==
    LET full_params == "route" :> Route(endpoint)
    IN IF DOMAIN params # {} THEN params @@ full_params ELSE full_params

\* the request self.session.get / post / delete puts on the wire
SessionRequest(endpoint, method, data, params) ==
    [method |-> method,
     url |-> base_url \o <<"/index.php">>,
     params |-> FullParams(endpoint, params),
     headers |-> session_headers,
     json |-> IF method = "POST" THEN data ELSE PyNone,
     timeout |-> timeout]

\* str(x), as an f-string formats x (containers and floats have no text here:
\* no body modelled puts one in an 'error' field)
PyStrOf(x) ==
    CASE x.t = "str" -> x.s
      [] x.t = "none" -> <<"None">>
      [] x.t = "bool" -> IF x.b THEN <<"True">> ELSE <<"False">>
      [] x.t = "int" -> IntToStr(x.n)
      [] OTHER -> <<"repr">>

\* str(e) of the HTTPError of raise_for_status
StrOfHTTPError(status_code) ==
    IF status_code < 500 THEN <<"Client Error">> ELSE <<"Server Error">>

\* error_msg of the except clause
ErrorMsg(response) ==
    LET error_data == json_loads(response.text)
    IN IF error_data.ok /\ error_data.val.t = "dict"
       THEN IF S_error \in DOMAIN error_data.val.d
            THEN PyStrOf(error_data.val.d[S_error])
            ELSE StrOfHTTPError(response.status_code)
       ELSE IF response.text # <<>> THEN response.text
            ELSE StrOfHTTPError(response.status_code)

\* the except clause for a RequestException that carries a response
RaiseApiError(response) ==
    Raise("HTTPError", "API Error ({status_code}): {error_msg}", response.status_code,
          ErrorMsg(response))

\* 'success' in result: "yes", "no", or "TypeError" for a value that is no container
SuccessIn(result) ==
    CASE result.t = "dict" -> IF S_success \in DOMAIN result.d THEN "yes" ELSE "no"
      [] result.t = "list" ->
            IF \E i \in 1..Len(result.l) : result.l[i] = PyStr(S_success)
            THEN "yes" ELSE "no"
      [] result.t = "str" -> IF Contains(result.s, S_success) THEN "yes" ELSE "no"
      [] OTHER -> "TypeError"

\* the mutant of Decoded that decodes the whole envelope
DecodedWhole(result) == decode_html_in_dict(result)

\* result['data'] = self._decode_html_in_dict(result['data'])
Decoded(result) ==
    PyDict([result.d EXCEPT ![S_data] = decode_html_in_dict(result.d[S_data])])

\* the mutant of Validate that decodes data whatever the success field says
ValidateDecodeAnySuccess(result, auto) ==
    IF SuccessIn(result) = "TypeError"
    THEN Raise("TypeError", "argument of type is not iterable", 0, <<>>)
    ELSE IF SuccessIn(result) = "no"
    THEN Raise("ValueError", "Invalid API response format: missing 'success' field", 0, <<>>)
    ELSE IF ~auto THEN Return(result)
    ELSE IF result.t # "dict"
    THEN Raise("AttributeError", "object has no attribute 'get'", 0, <<>>)
    ELSE IF S_data \in DOMAIN result.d
    THEN Return(Decoded(result))
    ELSE Return(result)

\* the validation and decoding of a parsed result; auto is self.auto_decode_html
Validate(result, auto) ==
    IF SuccessIn(result) = "TypeError"
    THEN Raise("TypeError", "argument of type is not iterable", 0, <<>>)
    ELSE IF SuccessIn(result) = "no"
    THEN Raise("ValueError", "Invalid API response format: missing 'success' field", 0, <<>>)
    ELSE IF ~auto THEN Return(result)
    ELSE IF result.t # "dict"
    THEN Raise("AttributeError", "object has no attribute 'get'", 0, <<>>)
    ELSE IF Truthy(result.d[S_success]) /\ S_data \in DOMAIN result.d
    THEN Return(Decoded(result))
    ELSE Return(result)

\* the mutant of InvalidJson that carries the whole raw text
InvalidJsonWhole(text) ==
    Raise("ValueError", "Invalid JSON response after cleaning: {text}", 0, text)

\* raise ValueError(f"Invalid JSON response after cleaning: {response.text[:500]}")
InvalidJson(text) ==
    Raise("ValueError", "Invalid JSON response after cleaning: {text}", 0,
          Prefix(text, DiagPrefixLen))

\* the parsing of a success-status body: directly, then after cleaning
ParseBody(text, auto) ==
    LET direct == json_loads(text)
        cleaned == json_loads(clean_json_response(text))
    IN IF direct.ok THEN Validate(direct.val, auto)
       ELSE IF cleaned.ok THEN Validate(cleaned.val, auto)
       ELSE InvalidJson(text)

\* the mutant of Answer that lets error statuses through to the parser
AnswerNoRaiseForStatus(response, auto) ==
    IF response.kind = "transport" THEN Raise(response.exc, "", 0, <<>>)
    ELSE ParseBody(response.text, auto)

\* what _request makes of the response to the request it issued
Answer(response, auto) ==
    IF response.kind = "transport" THEN Raise(response.exc, "", 0, <<>>)
    ELSE IF response.status_code >= 400 /\ response.status_code < 600
    THEN RaiseApiError(response)
    ELSE ParseBody(response.text, auto)

\* Answer tabulated: one evaluation for each response and each setting of
\* auto_decode_html
Answers == [auto \in BOOLEAN |-> [response \in Responses |-> Answer(response, auto)]]

\* OpenCartAPI._request
request(endpoint, method, data, params, response) ==
    IF method \notin {"GET", "POST", "DELETE"}
    THEN Done(<<>>, Raise("ValueError", "Unsupported HTTP method: {method}", 0, <<method>>))
    ELSE Done(<<SessionRequest(endpoint, method, data, params)>>,
              Answers[auto_decode_html][response])

(***************************************************************************)
(* The public operations.  Each takes its arguments and the response the   *)
(* server would give, and yields the requests issued and the outcome.      *)
(***************************************************************************)
\* a ValueError raised by an operation's own validation
Invalid(msg) == Done(<<>>, Raise("ValueError", msg, 0, <<>>))

\* the mutant of LimitTooLarge that rejects the limit MaxLimit itself
LimitTooLargeOffByOne(limit) == limit >= MaxLimit

\* limit > 100
LimitTooLarge(limit) == limit > MaxLimit

\* the mutant of InvalidId that only rejects non-integers
InvalidIdTypeOnly(id) == ~IsInstanceInt(id)

\* not isinstance(id, int) or id <= 0
InvalidId(id) == ~IsInstanceInt(id) \/ IntValue(id) <= 0

\* the mutant of Blank that only rejects the empty term
BlankEmptyOnly(term) == term.s = <<>>

\* not term.strip()
Blank(term) == Strip(term.s) = <<>>

\* the mutant of CallerDataAfter that encodes the caller's structure in place
CallerDataAfterInPlace(data, encode_html_flag) ==
    IF encode_html_flag THEN encode_html_in_dict(data) ELSE data

\* the structure the caller passed as data, as it is once the call is over:
\* "data = self._encode_html_in_dict(data)" binds the local name to the new
\* structure the comprehensions build, and nothing assigns into the old one
CallerDataAfter(data, encode_html_flag) == data

\* not data or not isinstance(data, dict)
InvalidData(data) == ~Truthy(data) \/ data.t # "dict"

search_products(name, start, limit, response) ==
    IF LimitTooLarge(limit) THEN Invalid("Limit cannot exceed 100 items")
    ELSE request("searchProduct", "GET", PyNone,
                 ("name" :> name) @@ ("start" :> PyInt(start)) @@ ("limit" :> PyInt(limit)),
                 response)

get_product(product_id, response) ==
    IF InvalidId(product_id) THEN Invalid("Invalid product ID")
    ELSE request("getProduct", "GET", PyNone, "product_id" :> product_id, response)

update_product(product_id, data, encode_html_flag, response) ==
    IF InvalidId(product_id) THEN Invalid("Invalid product ID")
    ELSE request("updateProduct", "POST",
                 IF encode_html_flag THEN encode_html_in_dict(data) ELSE data,
                 "product_id" :> product_id, response)

search_attributes_by_key(key, response) ==
    IF Blank(key) THEN Invalid("Search key cannot be empty")
    ELSE request("searchAttributeByKey", "GET", PyNone, "key" :> key, response)

search_attributes_by_value(value, response) ==
    IF Blank(value) THEN Invalid("Search value cannot be empty")
    ELSE request("searchAttributeByValue", "GET", PyNone, "value" :> value, response)

get_attribute(attribute_id, response) ==
    IF InvalidId(attribute_id) THEN Invalid("Invalid attribute ID")
    ELSE request("getAttribute", "GET", PyNone, "attribute_id" :> attribute_id, response)

add_attribute(data, encode_html_flag, response) ==
    IF InvalidData(data) THEN Invalid("Invalid attribute data")
    ELSE request("addAttribute", "POST",
                 IF encode_html_flag THEN encode_html_in_dict(data) ELSE data,
                 NoParams, response)

search_attribute_groups(name, response) ==
    request("searchAttributeGroup", "GET", PyNone,
            IF Truthy(name) THEN "name" :> name ELSE NoParams, response)

add_attribute_group(data, encode_html_flag, response) ==
    IF InvalidData(data) THEN Invalid("Invalid attribute group data")
    ELSE request("addAttributeGroup", "POST",
                 IF encode_html_flag THEN encode_html_in_dict(data) ELSE data,
                 NoParams, response)

get_all_categories(start, limit, response) ==
    IF LimitTooLarge(limit) THEN Invalid("Limit cannot exceed 100 items")
    ELSE request("getAllCategories", "GET", PyNone,
                 ("start" :> PyInt(start)) @@ ("limit" :> PyInt(limit)), response)

search_categories(name, response) ==
    IF Blank(name) THEN Invalid("Search name cannot be empty")
    ELSE request("searchCategories", "GET", PyNone, "name" :> name, response)

get_debug_info(response) == request("debugInfo", "GET", PyNone, NoParams, response)

(***************************************************************************)
(* The arguments callers pass                                              *)
(***************************************************************************)
Names == {PyStr(<<"a">>), PyStr(<<>>)}

Starts == {DefaultStart, DefaultLimit}

Limits == {DefaultLimit, MaxLimit, MaxLimit + 1, 2 * MaxLimit}

\* ids of every kind: integers, booleans, a float, a string, None
Ids ==
    {PyInt(0 - 5), PyInt(0), PyInt(1), PyInt(99999), PyBool(TRUE), PyBool(FALSE),
     PyFloat(1), PyStr(<<"1">>), PyNone}

TermChars == {" ", "\t", "a"}

\* every search term of at most MaxTermLen characters
Terms == {PyStr(s) : s \in UNION {[1..n -> TermChars] : n \in 0..MaxTermLen}}

Payloads == {PayloadNested, PayloadPlain, PyDict(EmptyDict), PyList(<<PyStr(<<"<">>)>>), PyNone}

GroupNames == {PyNone, PyStr(<<>>), PyStr(<<"a">>)}

\* the calls made of _request itself
Methods == {"GET", "POST", "DELETE", "PUT"}

Endpoints == {"getProduct", "debugInfo"}

ParamSets ==
    {NoParams, "product_id" :> PyInt(1), "route" :> PyStr(<<"common/home">>)}

(***************************************************************************)
(* Actions: one call of an operation, from its start to its outcome        *)
(***************************************************************************)
\* no call is in hand, and the session is still followed
Ready == last = Idle /\ sent < MaxSent

\* the call op(args) ran to the result r, having been answered with response
Call(op, args, response, r) ==
    /\ last' = [op |-> op, args |-> args,
                response |-> IF r.requests = <<>> THEN NoResponse ELSE response,
                requests |-> r.requests, outcome |-> r.outcome]
    /\ sent' = sent + Len(r.requests)
    /\ UNCHANGED <<base_url, api_key, auto_decode_html, timeout, session_headers>>

SearchProducts ==
    /\ Ready
    /\ \E name \in Names, start \in Starts, limit \in Limits, response \in Responses :
        Call("search_products", [name |-> name, start |-> start, limit |-> limit],
             response, search_products(name, start, limit, response))

GetProduct ==
    /\ Ready
    /\ \E product_id \in Ids, response \in Responses :
        Call("get_product", [id |-> product_id], response,
             get_product(product_id, response))

UpdateProduct ==
    /\ Ready
    /\ \E product_id \in Ids, data \in Payloads, flag \in BOOLEAN, response \in Responses :
        Call("update_product",
             [id |-> product_id, data |-> data, encode_html |-> flag,
              data_after |-> CallerDataAfter(data, flag)],
             response, update_product(product_id, data, flag, response))

SearchAttributesByKey ==
    /\ Ready
    /\ \E key \in Terms, response \in Responses :
        Call("search_attributes_by_key", [term |-> key], response,
             search_attributes_by_key(key, response))

SearchAttributesByValue ==
    /\ Ready
    /\ \E value \in Terms, response \in Responses :
        Call("search_attributes_by_value", [term |-> value], response,
             search_attributes_by_value(value, response))

GetAttribute ==
    /\ Ready
    /\ \E attribute_id \in Ids, response \in Responses :
        Call("get_attribute", [id |-> attribute_id], response,
             get_attribute(attribute_id, response))

AddAttribute ==
    /\ Ready
    /\ \E data \in Payloads, flag \in BOOLEAN, response \in Responses :
        Call("add_attribute",
             [data |-> data, encode_html |-> flag,
              data_after |-> CallerDataAfter(data, flag)], response,
             add_attribute(data, flag, response))

SearchAttributeGroups ==
    /\ Ready
    /\ \E name \in GroupNames, response \in Responses :
        Call("search_attribute_groups", [name |-> name], response,
             search_attribute_groups(name, response))

AddAttributeGroup ==
    /\ Ready
    /\ \E data \in Payloads, flag \in BOOLEAN, response \in Responses :
        Call("add_attribute_group",
             [data |-> data, encode_html |-> flag,
              data_after |-> CallerDataAfter(data, flag)], response,
             add_attribute_group(data, flag, response))

GetAllCategories ==
    /\ Ready
    /\ \E start \in Starts, limit \in Limits, response \in Responses :
        Call("get_all_categories", [start |-> start, limit |-> limit], response,
             get_all_categories(start, limit, response))

SearchCategories ==
    /\ Ready
    /\ \E name \in Terms, response \in Responses :
        Call("search_categories", [term |-> name], response,
             search_categories(name, response))

GetDebugInfo ==
    /\ Ready
    /\ \E response \in Responses :
        Call("get_debug_info", [none |-> PyNone], response, get_debug_info(response))

\* _request called directly, with any endpoint, method and params
Request ==
    /\ Ready
    /\ \E endpoint \in Endpoints, method \in Methods, params \in ParamSets,
          response \in Responses :
        Call("_request", [endpoint |-> endpoint, method |-> method, params |-> params],
             response, request(endpoint, method, PyNone, params, response))

\* the caller takes the outcome of the call and goes on
Continue ==
    /\ last # Idle
    /\ last' = Idle
    /\ UNCHANGED <<base_url, api_key, auto_decode_html, timeout, session_headers, sent>>

Next ==
    \/ SearchProducts
    \/ GetProduct
    \/ UpdateProduct
    \/ SearchAttributesByKey
    \/ SearchAttributesByValue
    \/ GetAttribute
    \/ AddAttribute
    \/ SearchAttributeGroups
    \/ AddAttributeGroup
    \/ GetAllCategories
    \/ SearchCategories
    \/ GetDebugInfo
    \/ Request
    \/ Continue

Spec == Init /\ [][Next]_vars

(***************************************************************************)
(* The entity conversions called on their own: decode_html, encode_html,   *)
(* _decode_html_in_dict and _encode_html_in_dict applied to a value, or to *)
(* the value the conversion before returned                                *)
(***************************************************************************)
\* the longest text made of any characters of HtmlChars
MaxTextLen == 2

\* the most conversions applied one after the other
MaxSteps == 2

\* the characters html.escape converts, and an ordinary one
HtmlChars == {"&", "<", ">", "\"", "'", "a"}

\* character references, complete and not
HtmlPieces ==
    { <<"&","a","m","p",";">>, <<"&","l","t",";">>, <<"&","g","t",";">>,
      <<"&","q","u","o","t",";">>, <<"&","#","x","2","7",";">>, <<"&","#","6","0",";">>,
      <<"&","l","t">>, <<"&","a","m","p">> }

\* every text of at most n characters of HtmlChars
ShortTexts(n) == UNION {[1..k -> HtmlChars] : k \in 0..n}

HtmlTexts ==
    ShortTexts(MaxTextLen)
        \cup {p \o q : p \in HtmlPieces \cup ShortTexts(1), q \in HtmlPieces \cup ShortTexts(1)}

\* a structure nesting mappings and sequences, with text in its string leaves,
\* a reference as a key, and leaves that are no strings
Nest(text) ==
    PyDict((S_name :> PyStr(text))
           @@ (S_lt :> PyList(<<PyStr(text), PyInt(5), PyNone,
                                PyDict(S_data :> PyStr(<<"a">> \o text))>>)))

HtmlStructures ==
    {PyStr(text) : text \in HtmlTexts}
        \cup {Nest(text) : text \in HtmlPieces \cup ShortTexts(1)}
        \cup {Nest(<<"&","l","t",";","&","a","m","p",";">>), PyInt(5), PyNone, PyList(<<>>)}

\* one conversion applied: its name and, for encode_html, its quote argument
Step(op, quote) == [op |-> op, quote |-> quote]

\* a conversion is in hand, and may be followed by another
IsConversion == "steps" \in DOMAIN last

MayFollow == IsConversion /\ Len(last.steps) < MaxSteps

\* the conversion op ran on the value that began as origin, and returned value
Converted(op, quote, origin, steps, value) ==
    /\ last' = [op |-> op, origin |-> origin, steps |-> Append(steps, Step(op, quote)),
                value |-> value]
    /\ UNCHANGED <<base_url, api_key, auto_decode_html, timeout, session_headers, sent>>

DecodeHtml ==
    \/ /\ last = Idle
       /\ \E text \in HtmlTexts :
            Converted("decode_html", FALSE, PyStr(text), <<>>, PyStr(decode_html(text)))
    \/ /\ MayFollow
       /\ last.value.t = "str"
       /\ Converted("decode_html", FALSE, last.origin, last.steps,
                    PyStr(decode_html(last.value.s)))

EncodeHtml ==
    \/ /\ last = Idle
       /\ \E text \in HtmlTexts, quote \in BOOLEAN :
            Converted("encode_html", quote, PyStr(text), <<>>, PyStr(encode_html(text, quote)))
    \/ /\ MayFollow
       /\ last.value.t = "str"
       /\ \E quote \in BOOLEAN :
            Converted("encode_html", quote, last.origin, last.steps,
                      PyStr(encode_html(last.value.s, quote)))

DecodeHtmlInDict ==
    \/ /\ last = Idle
       /\ \E data \in HtmlStructures :
            Converted("_decode_html_in_dict", FALSE, data, <<>>, decode_html_in_dict(data))
    \/ /\ MayFollow
       /\ Converted("_decode_html_in_dict", FALSE, last.origin, last.steps,
                    decode_html_in_dict(last.value))

EncodeHtmlInDict ==
    \/ /\ last = Idle
       /\ \E data \in HtmlStructures :
            Converted("_encode_html_in_dict", FALSE, data, <<>>, encode_html_in_dict(data))
    \/ /\ MayFollow
       /\ Converted("_encode_html_in_dict", FALSE, last.origin, last.steps,
                    encode_html_in_dict(last.value))

\* the caller reads back what add_attribute wrote: get_attribute, answered by
\* a server that stored the JSON body as it came and returns it as data
ReadBack ==
    /\ last.op = "add_attribute"
    /\ Len(last.requests) = 1
    /\ last.outcome.kind = "return"
    /\ sent < MaxSent
    /\ LET response == EchoResponse(last.requests[1].json)
       IN Call("get_attribute",
               [id |-> PyInt(1), written |-> last.args.data, encoded |-> last.args.encode_html],
               response, get_attribute(PyInt(1), response))

HtmlNext ==
    \/ DecodeHtml
    \/ EncodeHtml
    \/ DecodeHtmlInDict
    \/ EncodeHtmlInDict
    \/ AddAttribute
    \/ ReadBack
    \/ Continue

HtmlSpec == Init /\ [][HtmlNext]_vars

(***************************************************************************)
(* Properties                                                              *)
(***************************************************************************)
\* the call in hand ended in the ValueError of a failed validation, and issued
\* no request
RejectedLocally ==
    /\ last.outcome.kind = "raise"
    /\ last.outcome.exc = "ValueError"
    /\ last.requests = <<>>

\* the call in hand issued one request: method to endpoint, with params
IssuedOne(method, endpoint, params) ==
    /\ Len(last.requests) = 1
    /\ last.requests[1].method = method
    /\ last.requests[1].params = params @@ ("route" :> PyStr(<<"api/product_api/", endpoint>>))

\* C1: search_products and get_all_categories called with limit > 100 raise
\* ValueError and issue no HTTP request, whatever start and name are; with
\* limit <= 100 they issue the request.
C1_LimitValidation ==
    /\ last.op = "search_products" =>
          IF last.args.limit > 100 THEN RejectedLocally
          ELSE IssuedOne("GET", "searchProduct",
                         ("name" :> last.args.name) @@ ("start" :> PyInt(last.args.start))
                             @@ ("limit" :> PyInt(last.args.limit)))
    /\ last.op = "get_all_categories" =>
          IF last.args.limit > 100 THEN RejectedLocally
          ELSE IssuedOne("GET", "getAllCategories",
                         ("start" :> PyInt(last.args.start))
                             @@ ("limit" :> PyInt(last.args.limit)))

C1_Witness ==
    /\ last.op = "get_all_categories"
    /\ last.args.limit = 101
    /\ RejectedLocally

\* a positive integer, by Python's data model: an int greater than 0, bool
\* being the subtype of int whose True is the integer 1
IsPositiveInteger(x) == (x.t = "int" /\ x.n > 0) \/ (x.t = "bool" /\ x.b)

\* C2: get_product, update_product and get_attribute raise ValueError and
\* issue no HTTP request whenever the id is not a positive integer (0,
\* negative, or no integer at all); for update_product whatever the data and
\* encode_html are.
C2_IdValidation ==
    (last.op \in {"get_product", "update_product", "get_attribute"}
        /\ ~IsPositiveInteger(last.args.id)) => RejectedLocally

C2_Witness ==
    /\ last.op = "update_product"
    /\ last.args.id = PyInt(0)
    /\ last.args.data = PayloadNested
    /\ last.args.encode_html
    /\ RejectedLocally

\* a term that is empty or holds only whitespace
IsBlankTerm(term) == \A i \in 1..Len(term.s) : term.s[i] \in {" ", "\t", "\n", "\r"}

\* the query parameter each search operation puts its term in
TermParam ==
    ("search_attributes_by_key" :> "key") @@ ("search_attributes_by_value" :> "value")
        @@ ("search_categories" :> "name")

TermEndpoint ==
    ("search_attributes_by_key" :> "searchAttributeByKey")
        @@ ("search_attributes_by_value" :> "searchAttributeByValue")
        @@ ("search_categories" :> "searchCategories")

\* C3: search_attributes_by_key, search_attributes_by_value and
\* search_categories raise ValueError and issue no HTTP request whenever the
\* term is blank; a non-blank term is sent to the server as given, unstripped.
C3_BlankTerm ==
    last.op \in DOMAIN TermParam =>
        IF IsBlankTerm(last.args.term) THEN RejectedLocally
        ELSE IssuedOne("GET", TermEndpoint[last.op], TermParam[last.op] :> last.args.term)

C3_Witness ==
    /\ last.op = "search_attributes_by_value"
    /\ last.args.term = PyStr(<<" ", "\t">>)
    /\ RejectedLocally

\* C4: every HTTP request issued carries the API key given at construction
\* twice: as the header X-API-KEY and as the query parameter api_key.
C4_ApiKeyTwice ==
    last.op # "idle" =>
        \A i \in 1..Len(last.requests) :
            /\ "X-API-KEY" \in DOMAIN last.requests[i].headers
            /\ last.requests[i].headers["X-API-KEY"] = api_key
            /\ "api_key" \in DOMAIN last.requests[i].params
            /\ last.requests[i].params["api_key"] = PyStr(<<api_key>>)

\* C5: whatever endpoint and params _request is called with, params holding
\* the key 'route' included, the route query parameter of the outgoing
\* request is 'api/product_api/<endpoint>'.
C5_RouteKept ==
    last.op = "_request" =>
        \A i \in 1..Len(last.requests) :
            last.requests[i].params["route"] = PyStr(<<"api/product_api/", last.args.endpoint>>)

\* the call in hand was answered with an HTTP response of a 4xx/5xx status
AnsweredWithError ==
    /\ last.op # "idle"
    /\ last.response.kind = "http"
    /\ last.response.status_code \in 400..599

\* the call in hand was answered with an HTTP response of a success status
AnsweredWithSuccess ==
    /\ last.op # "idle"
    /\ last.response.kind = "http"
    /\ last.response.status_code \notin 400..599

\* what each response's body is as JSON, read as it stands
DirectJson == [response \in Responses |-> json_loads(response.text)]

\* what each response's body is as JSON, read directly or after recovery
RecoveredJson ==
    [response \in Responses |->
        IF DirectJson[response].ok THEN DirectJson[response]
        ELSE json_loads(clean_json_response(response.text))]

\* C6: on a 4xx/5xx status the operation returns no envelope: it raises an
\* HTTP error carrying the status code, and when the body is a JSON object
\* with an 'error' field the message contains that field's value, also when
\* the body is a well-formed envelope with a 'success' field.
C6_HttpError ==
    AnsweredWithError =>
        /\ last.outcome.kind = "raise"
        /\ last.outcome.exc = "HTTPError"
        /\ last.outcome.status_code = last.response.status_code
        /\ LET body == DirectJson[last.response]
           IN (body.ok /\ body.val.t = "dict" /\ S_error \in DOMAIN body.val.d) =>
                  Contains(last.outcome.text, PyStrOf(body.val.d[S_error]))

C6_Witness ==
    /\ last.op = "get_product"
    /\ last.args.id = PyInt(99999)
    /\ last.response = HttpResponse(404, Dumps(PyDict(S_error :> PyStr(S_not_found))))
    /\ last.outcome.exc = "HTTPError"
    /\ last.outcome.status_code = 404
    /\ Contains(last.outcome.text, S_not_found)

\* C7: for a success-status response whose body is no JSON and from which the
\* recovery extracts no parseable JSON, the operation raises ValueError and
\* returns nothing; the text the error carries is a prefix of the raw body of
\* at most 500 characters.
C7_InvalidJson ==
    (AnsweredWithSuccess /\ ~RecoveredJson[last.response].ok) =>
        /\ last.outcome.kind = "raise"
        /\ last.outcome.exc = "ValueError"
        /\ Len(last.outcome.text) <= 500
        /\ Len(last.outcome.text) <= Len(last.response.text)
        /\ last.outcome.text = SubSeq(last.response.text, 1, Len(last.outcome.text))

C7_Witness ==
    /\ last.op = "get_debug_info"
    /\ last.response = HttpResponse(200, S_not_json)
    /\ last.outcome.exc = "ValueError"
    /\ last.outcome.text = S_not_json

\* C8: for a success-status response whose body is any non-JSON diagnostic
\* text, braces and brackets included, followed by the envelope
\* {"success": true, "count": 0, "data": []}, the client returns exactly that
\* envelope.
C8_Recovery ==
    (AnsweredWithSuccess
        /\ \E d \in DiagPlain \cup DiagWithBrace : last.response.text = d \o Dumps(EnvEmpty))
    => last.outcome = Return(EnvEmpty)

\* x is a mapping with a 'success' key
HasSuccessField(x) == x.t = "dict" /\ S_success \in DOMAIN x.d

\* C9: for a success-status response whose body parses, directly or after
\* recovery, to a JSON value without a 'success' field (an object without the
\* key, an array, a string, a number, a boolean, null) the operation raises
\* the ValueError of a malformed envelope and fails in no other way; so every
\* value an operation returns is a mapping with a 'success' key.
C9_MalformedEnvelope ==
    /\ (AnsweredWithSuccess /\ RecoveredJson[last.response].ok
            /\ ~HasSuccessField(RecoveredJson[last.response].val))
        => (last.outcome.kind = "raise" /\ last.outcome.exc = "ValueError")
    /\ (last.op # "idle" /\ last.outcome.kind = "return")
        => HasSuccessField(last.outcome.value)

RECURSIVE SameShapeDecoded(_, _)
\* y has the structure of x, its string leaves those of x with their HTML
\* entities decoded, its other leaves those of x
SameShapeDecoded(x, y) ==
    /\ y.t = x.t
    /\ CASE x.t = "dict" ->
                /\ DOMAIN y.d = DOMAIN x.d
                /\ \A k \in DOMAIN x.d : SameShapeDecoded(x.d[k], y.d[k])
         [] x.t = "list" ->
                /\ Len(y.l) = Len(x.l)
                /\ \A i \in 1..Len(x.l) : SameShapeDecoded(x.l[i], y.l[i])
         [] x.t = "str" -> y.s = html_unescape(x.s)
         [] OTHER -> y = x

\* the data of EnvNested, decoded
EnvNestedDataDecoded ==
    PyDict((S_name :> PyStr(<<"<", "T", ">">>))
           @@ (S_tags :> PyList(<<PyStr(<<"&", "l", "t", ";">>), PyInt(12), PyNone,
                                   PyBool(FALSE), PyDict(S_lt :> PyStr(<<"a", ">">>))>>)))

\* C10: when the parsed envelope has success true and a 'data' field and
\* auto_decode_html is on, the returned data has the structure of the parsed
\* data with every string leaf, at any depth, HTML-entity-decoded
\* ('&lt;T&gt;' becomes '<T>') and every other leaf unchanged; the other
\* fields of the envelope are returned unchanged.
C10_DecodedData ==
    LET parsed == RecoveredJson[last.response]
    IN (AnsweredWithSuccess /\ auto_decode_html /\ parsed.ok
            /\ HasSuccessField(parsed.val) /\ parsed.val.d[S_success] = PyBool(TRUE)
            /\ S_data \in DOMAIN parsed.val.d)
       => /\ last.outcome.kind = "return"
          /\ last.outcome.value.t = "dict"
          /\ DOMAIN last.outcome.value.d = DOMAIN parsed.val.d
          /\ \A k \in DOMAIN parsed.val.d \ {S_data} :
                 last.outcome.value.d[k] = parsed.val.d[k]
          /\ SameShapeDecoded(parsed.val.d[S_data], last.outcome.value.d[S_data])
          /\ parsed.val = EnvNested => last.outcome.value.d[S_data] = EnvNestedDataDecoded

C10_Witness ==
    /\ last.op = "get_product"
    /\ auto_decode_html
    /\ last.response = HttpResponse(200, Dumps(EnvNested))
    /\ last.outcome.kind = "return"
    /\ last.outcome.value.d[S_data].d[S_name] = PyStr(<<"<", "T", ">">>)
    /\ last.outcome.value.d[S_message] = PyStr(S_amp)

\* the envelope the code reads from the response, when it reads a mapping with
\* a 'success' field whose value is false
SuccessFalse(response) ==
    LET body == RecoveredJson[response]
    IN /\ body.ok
       /\ body.val.t = "dict"
       /\ S_success \in DOMAIN body.val.d
       /\ body.val.d[S_success].t = "bool"
       /\ ~body.val.d[S_success].b

\* C11: a success-status response whose envelope has success false is returned
\* as a value, never raised, and verbatim: no field of it, 'data' included, is
\* HTML-decoded or altered, whatever auto_decode_html is.
C11_FailureEnvelopeVerbatim ==
    (AnsweredWithSuccess /\ SuccessFalse(last.response)) =>
        /\ last.outcome.kind = "return"
        /\ last.outcome.value = RecoveredJson[last.response].val

C11_Witness ==
    /\ last.op = "search_products"
    /\ auto_decode_html
    /\ last.response = HttpResponse(200, Dumps(EnvFailed))
    /\ last.outcome = Return(EnvFailed)
    /\ decode_html_in_dict(EnvFailed.d[S_data]) # EnvFailed.d[S_data]

\* C12: search_attribute_groups puts the 'name' query parameter in the request
\* exactly when a name was supplied: absent for None, present with the given
\* value for every supplied name, the empty string included.
C12_NameParam ==
    last.op = "search_attribute_groups" =>
        /\ Len(last.requests) = 1
        /\ IF last.args.name.t = "none"
           THEN "name" \notin DOMAIN last.requests[1].params
           ELSE /\ "name" \in DOMAIN last.requests[1].params
                /\ last.requests[1].params["name"] = last.args.name

RECURSIVE Leaves(_)
\* the texts of the string leaves of a structure
Leaves(x) ==
    IF x.t = "dict" THEN UNION {Leaves(x.d[key]) : key \in DOMAIN x.d}
    ELSE IF x.t = "list" THEN UNION {Leaves(x.l[i]) : i \in 1..Len(x.l)}
    ELSE IF x.t = "str" THEN {x.s}
    ELSE {}

\* the conversions applied to last.origin were these two, in this order
Applied(first, second) ==
    /\ IsConversion
    /\ Len(last.steps) = 2
    /\ last.steps[1].op = first
    /\ last.steps[2].op = second

\* the characters '&', '<' and '>', which both conversions represent, and
\* ordinary characters, which both leave as they are
CommonChars == {"&", "<", ">", "a", "m", "p", "l", "t", "g", ";"}

\* C13 as stated: for every structure whose string leaves hold only characters
\* representable by both conversions, deep-encoding the deep-decoded
\* structure yields the structure again.
C13_EncodeDecodeCommonChars ==
    (Applied("_decode_html_in_dict", "_encode_html_in_dict")
        /\ \A text \in Leaves(last.origin) : \A i \in 1..Len(text) : text[i] \in CommonChars)
    => last.value = last.origin

\* a text in the form html.escape(quote=False) writes: no '<' or '>', and
\* every '&' the start of one of the references &amp; &lt; &gt;
EscapedForm(text) ==
    \A i \in 1..Len(text) :
        /\ text[i] \notin {"<", ">"}
        /\ text[i] = "&" =>
              \/ OccursAt(text, i, <<"&","a","m","p",";">>)
              \/ OccursAt(text, i, <<"&","l","t",";">>)
              \/ OccursAt(text, i, <<"&","g","t",";">>)

\* C13, amended: for every structure whose string leaves are in the form the
\* encoder writes ('<', '>' and '&' only as the references &lt; &gt; &amp;),
\* deep-encoding the deep-decoded structure yields the structure again.
C13_EncodeDecodeEscapedForm ==
    (Applied("_decode_html_in_dict", "_encode_html_in_dict")
        /\ \A text \in Leaves(last.origin) : EscapedForm(text))
    => last.value = last.origin

C13_Witness ==
    /\ Applied("_decode_html_in_dict", "_encode_html_in_dict")
    /\ last.origin = Nest(<<"&","l","t",";","&","a","m","p",";">>)
    /\ last.value = last.origin
    /\ decode_html_in_dict(last.origin) # last.origin

\* the public operations
PublicOps ==
    {"search_products", "get_product", "update_product", "search_attributes_by_key",
     "search_attributes_by_value", "get_attribute", "add_attribute",
     "search_attribute_groups", "add_attribute_group", "get_all_categories",
     "search_categories", "get_debug_info"}

\* the arguments of the call in hand pass the validation its operation documents
ValidArguments ==
    CASE last.op \in {"search_products", "get_all_categories"} -> last.args.limit <= 100
      [] last.op \in {"get_product", "update_product", "get_attribute"} ->
            IsPositiveInteger(last.args.id)
      [] last.op \in DOMAIN TermParam -> ~IsBlankTerm(last.args.term)
      [] last.op \in {"add_attribute", "add_attribute_group"} ->
            last.args.data.t = "dict" /\ DOMAIN last.args.data.d # {}
      [] OTHER -> TRUE

\* the answer to the call in hand is one of the errors of the taxonomy: a
\* transport failure, an error status, a body that is no JSON even after
\* recovery, or JSON that is no mapping with a 'success' field
AnsweredInError ==
    \/ last.response.kind = "transport"
    \/ AnsweredWithError
    \/ ~RecoveredJson[last.response].ok
    \/ ~HasSuccessField(RecoveredJson[last.response].val)

\* C14: over any sequence of public operations, an operation whose validation
\* passes issues exactly one HTTP request and one whose validation fails
\* issues none; a transport failure, or any other error, is not retried and
\* is raised from that same call, never turned into a returned value.
C14_OneRequestErrorsRaised ==
    last.op \in PublicOps =>
        /\ Len(last.requests) = (IF ValidArguments THEN 1 ELSE 0)
        /\ ~ValidArguments => RejectedLocally
        /\ (ValidArguments /\ last.response.kind = "transport") =>
              (last.outcome.kind = "raise" /\ last.outcome.exc = last.response.exc)
        /\ (ValidArguments /\ AnsweredInError) => last.outcome.kind = "raise"

\* what html.escape makes of one character when quotes are left alone
EscapedChar(c) ==
    CASE c = "&" -> <<"&","a","m","p",";">>
      [] c = "<" -> <<"&","l","t",";">>
      [] c = ">" -> <<"&","g","t",";">>
      [] OTHER -> <<c>>

RECURSIVE EscapedText(_)
\* the text s with each of its characters escaped
EscapedText(s) == IF s = <<>> THEN <<>> ELSE EscapedChar(Head(s)) \o EscapedText(Tail(s))

RECURSIVE SameShapeEscaped(_, _)
\* y has the structure and the keys of x, its string leaves those of x
\* HTML-escaped, its other leaves those of x
SameShapeEscaped(x, y) ==
    /\ y.t = x.t
    /\ CASE x.t = "dict" ->
                /\ DOMAIN y.d = DOMAIN x.d
                /\ \A k \in DOMAIN x.d : SameShapeEscaped(x.d[k], y.d[k])
         [] x.t = "list" ->
                /\ Len(y.l) = Len(x.l)
                /\ \A i \in 1..Len(x.l) : SameShapeEscaped(x.l[i], y.l[i])
         [] x.t = "str" -> y.s = EscapedText(x.s)
         [] OTHER -> y = x

\* the operations that send the caller's data as the JSON body
WritingOps == {"update_product", "add_attribute", "add_attribute_group"}

C16_ErrorTextTruncated ==
    (AnsweredWithError /\ ~DirectJson[last.response].ok /\ last.response.text # <<>>) =>
        /\ last.outcome.exc = "HTTPError"
        /\ Len(last.outcome.text) <= DiagPrefixLen
        /\ last.outcome.text = Prefix(last.response.text, Len(last.outcome.text))

\* C17: decoding undoes encoding: decode_html(encode_html(s, quote)) = s for
\* every text s and both settings of quote, and
\* _decode_html_in_dict(_encode_html_in_dict(x)) = x for every structure x; so
\* data written with encode_html true, stored unchanged by the server and read
\* back with auto_decode_html on is the data the caller wrote.
C17_DecodeUndoesEncode ==
    /\ Applied("encode_html", "decode_html") => last.value = last.origin
    /\ Applied("_encode_html_in_dict", "_decode_html_in_dict") => last.value = last.origin
    /\ (last.op = "get_attribute" /\ last.args.encoded /\ auto_decode_html) =>
          last.outcome = Return(EchoEnvelope(last.args.written))

C17_Witness ==
    /\ Applied("encode_html", "decode_html")
    /\ last.steps[1].quote
    /\ last.origin = PyStr(<<"'", "&">>)
    /\ last.value = last.origin

====
